---------------------------- MODULE Spec2Model ----------------------------
(***************************************************************************)
(* A model of sqrt.py: the Ratio class (exact rational arithmetic over     *)
(* Python integers), precSqrt (square root by continued fraction) and the  *)
(* main prompt loop that calls it.                                         *)
(*                                                                         *)
(* The program is Python 2: `/` on integers is floor division, `%` takes   *)
(* the sign of the divisor, integers are unbounded, and math.sqrt/floor    *)
(* work on IEEE-754 doubles.                                               *)
(***************************************************************************)
EXTENDS Integers, Sequences, FiniteSets, TLC

(***************************************************************************)
(* Bounds of the model.                                                    *)
(***************************************************************************)
\* Ratio operands have numerators and denominators in -RatioMax..RatioMax.
RatioMax == 3

\* Radicands run from -MaxInvalid to MaxN and digit counts from
\* 1 - MaxInvalid to MaxDig, so both ranges include invalid inputs.
MaxN == 157

MaxDig == 3

MaxInvalid == 2

\* Radicands beyond the doubles' exact range are the squares of the
\* integers within BigSpan of 2^MantissaBits.
BigSpan == 30

\* The largest integer the model's arithmetic represents; Python's integers
\* are unbounded.  A round of precSqrt whose products would exceed it is
\* not taken.
IntLimit == (2 ^ 30 - 1) + 2 ^ 30

(***************************************************************************)
(* Python integer arithmetic.                                              *)
(***************************************************************************)
\* abs() on integers
PyAbs(k) == IF k < 0 THEN -k ELSE k

\* `/` on two integers: the floor of the quotient, for a divisor of either sign
PyFloorDiv(p, q) == p \div q

\* `%` on two integers: the result has the sign of the divisor
PyMod(p, q) == p - q * (p \div q)

\* Euclid's algorithm as written: while n != 0: r = m % n; m = n; n = r
gcd[mm \in Int, nn \in Int] == IF nn # 0 THEN gcd[nn, PyMod(mm, nn)] ELSE mm

\* abs(a * b) / gcd(a, b); the caller checks that gcd is not zero
lcm(p, q) == PyFloorDiv(PyAbs(p * q), gcd[p, q])

(***************************************************************************)
(* Python's unbounded integers beyond the range of the model's integers:   *)
(* a natural number as its sequence of limbs in base 2^15, least           *)
(* significant first, without leading zero limbs (zero is <<>>).           *)
(***************************************************************************)
LimbBits == 15

LimbBase == 2 ^ LimbBits

Limbs == Seq(Nat)

LimbHead(u) == IF u = <<>> THEN 0 ELSE Head(u)

LimbTail(u) == IF u = <<>> THEN <<>> ELSE Tail(u)

NatNorm[u \in Limbs] == IF u # <<>> /\ u[Len(u)] = 0
              THEN NatNorm[SubSeq(u, 1, Len(u) - 1)] ELSE u

NatFromInt[k \in Nat] == IF k = 0 THEN <<>>
                 ELSE <<k % LimbBase>> \o NatFromInt[k \div LimbBase]

NatToInt[u \in Limbs] == IF u = <<>> THEN 0 ELSE Head(u) + LimbBase * NatToInt[Tail(u)]

NatCmpAt[u \in Limbs, v \in Limbs, i \in Nat] ==
    IF i = 0 THEN 0
    ELSE IF u[i] # v[i] THEN (IF u[i] < v[i] THEN -1 ELSE 1)
    ELSE NatCmpAt[u, v, i - 1]

\* -1, 0 or 1 as u is less than, equal to or greater than v
NatCmp(u, v) ==
    IF Len(u) # Len(v) THEN (IF Len(u) < Len(v) THEN -1 ELSE 1)
    ELSE NatCmpAt[u, v, Len(u)]

NatAddC[u \in Limbs, v \in Limbs, carry \in Nat] ==
    IF u = <<>> /\ v = <<>> THEN (IF carry = 0 THEN <<>> ELSE <<carry>>)
    ELSE LET t == LimbHead(u) + LimbHead(v) + carry
         IN  <<t % LimbBase>> \o NatAddC[LimbTail(u), LimbTail(v), t \div LimbBase]

NatAdd(u, v) == NatAddC[u, v, 0]

NatSubB[u \in Limbs, v \in Limbs, borrow \in Nat] ==
    IF u = <<>> THEN <<>>
    ELSE LET t == Head(u) - LimbHead(v) - borrow
         IN  <<IF t < 0 THEN t + LimbBase ELSE t>>
                 \o NatSubB[Tail(u), LimbTail(v), IF t < 0 THEN 1 ELSE 0]

\* u - v, for u >= v
NatSub(u, v) == NatNorm[NatSubB[u, v, 0]]

NatMulSmallC[u \in Limbs, k \in Nat, carry \in Nat] ==
    IF u = <<>> THEN (IF carry = 0 THEN <<>> ELSE <<carry>>)
    ELSE LET t == Head(u) * k + carry
         IN  <<t % LimbBase>> \o NatMulSmallC[Tail(u), k, t \div LimbBase]

\* u * k, for 0 <= k < LimbBase
NatMulSmall(u, k) == NatNorm[NatMulSmallC[u, k, 0]]

\* long division by k from the most significant limb down: rem is the
\* remainder so far and q the quotient limbs so far
NatDivSmallR[u \in Limbs, k \in Nat, rem \in Nat, q \in Limbs] ==
    IF u = <<>> THEN [q |-> q, r |-> rem]
    ELSE NatDivSmallR[SubSeq(u, 1, Len(u) - 1), k,
                      (rem * LimbBase + u[Len(u)]) % k,
                      <<(rem * LimbBase + u[Len(u)]) \div k>> \o q]

\* quotient q and remainder r of u by k, for 0 < k < LimbBase
NatDivSmall(u, k) ==
    [q |-> NatNorm[NatDivSmallR[u, k, 0, <<>>].q], r |-> NatDivSmallR[u, k, 0, <<>>].r]

NatMul[u \in Limbs, v \in Limbs] ==
    IF u = <<>> \/ v = <<>> THEN <<>>
    ELSE NatNorm[NatAdd(NatMulSmall(u, Head(v)), <<0>> \o NatMul[u, Tail(v)])]

\* u * 2^k
NatShl(u, k) ==
    IF u = <<>> THEN <<>>
    ELSE [i \in 1 .. (k \div LimbBits) |-> 0] \o NatMulSmall(u, 2 ^ (k % LimbBits))

\* floor(u / 2^k)
NatShr(u, k) ==
    IF k \div LimbBits >= Len(u) THEN <<>>
    ELSE NatDivSmall(SubSeq(u, (k \div LimbBits) + 1, Len(u)), 2 ^ (k % LimbBits)).q

BitLenInt[k \in Nat] == IF k = 0 THEN 0 ELSE 1 + BitLenInt[k \div 2]

\* the number of bits of u (0 for zero)
NatBitLen(u) ==
    IF u = <<>> THEN 0 ELSE LimbBits * (Len(u) - 1) + BitLenInt[u[Len(u)]]

NatIsOdd(u) == u # <<>> /\ u[1] % 2 = 1

NatISqrtLoop[rem \in Limbs, res \in Limbs, bit \in Limbs] ==
    IF bit = <<>> THEN [root |-> res, rem |-> rem]
    ELSE LET t == NatAdd(res, bit)
         IN  IF NatCmp(rem, t) >= 0
             THEN NatISqrtLoop[NatSub(rem, t), NatAdd(NatShr(res, 1), bit), NatShr(bit, 2)]
             ELSE NatISqrtLoop[rem, NatShr(res, 1), NatShr(bit, 2)]

\* root = floor(sqrt(u)) and rem = u - root^2, one bit of the root at a time
NatISqrt(u) ==
    IF u = <<>> THEN [root |-> <<>>, rem |-> <<>>]
    ELSE NatISqrtLoop[u, <<>>, NatShl(<<1>>, 2 * ((NatBitLen(u) - 1) \div 2))]

(***************************************************************************)
(* IEEE-754 doubles, as far as math.sqrt and math.floor use them.  A       *)
(* double is the exact value mant * 2^exp with mant < 2^MantissaBits;      *)
(* conversions and sqrt round to nearest, ties to even.                    *)
(***************************************************************************)
MantissaBits == 53

MaxDoubleBits == 1024

\* u rounded to MantissaBits significant bits, as mant * 2^exp; sticky says
\* that nonzero bits below those of u were already dropped
RoundToMantissa(u, sticky) ==
    LET e == NatBitLen(u) - MantissaBits IN
    IF e <= 0 THEN [mant |-> u, exp |-> 0]
    ELSE LET q    == NatShr(u, e)
             low  == NatSub(u, NatShl(q, e))
             cmp  == NatCmp(low, NatShl(<<1>>, e - 1))
             up   == cmp > 0 \/ (cmp = 0 /\ (sticky \/ NatIsOdd(q)))
         IN  [mant |-> IF up THEN NatAdd(q, <<1>>) ELSE q, exp |-> e]

\* float(k) for an integer k >= 0, the conversion math.sqrt and math.floor
\* apply to an integer argument
DoubleOfNat(u) == RoundToMantissa(u, FALSE)

\* Python raises OverflowError for an integer too large for a double
DoubleOverflows(u) == NatBitLen(u) > MaxDoubleBits

\* the integer value of a double with exp >= 0
DoubleToNat(f) == NatShl(f.mant, f.exp)

\* math.sqrt on an integer-valued double: the correctly rounded square root
DoubleSqrt(f) ==
    LET v  == DoubleToNat(f)
        L  == NatBitLen(v)
        sh == IF L >= 2 * MantissaBits + 3 THEN 0
              ELSE (2 * MantissaBits + 4 - L) \div 2
        t  == NatISqrt(NatShl(v, 2 * sh))
        r  == RoundToMantissa(t.root, t.rem # <<>>)
    IN  IF v = <<>> THEN [mant |-> <<>>, exp |-> 0]
        ELSE [mant |-> r.mant, exp |-> r.exp - sh]

\* math.floor on a double >= 0, then int(): the integer part
DoubleFloor(f) ==
    IF f.exp >= 0 THEN NatShl(f.mant, f.exp) ELSE NatShr(f.mant, -f.exp)

\* float == int: Python compares the two exact values
DoubleEqNat(f, u) ==
    /\ NatCmp(DoubleFloor(f), u) = 0
    /\ f.exp < 0 => NatCmp(NatShl(DoubleFloor(f), -f.exp), f.mant) = 0

\* int(floor(k)) for an integer k: through float(k)
IntFloor(k) ==
    IF k >= 0 THEN NatToInt[DoubleToNat(DoubleOfNat(NatFromInt[k]))]
    ELSE -NatToInt[DoubleToNat(DoubleOfNat(NatFromInt[-k]))]

(***************************************************************************)
(* Python strings, as sequences of one-character strings.                  *)
(***************************************************************************)
DigitChar(k) == <<"0", "1", "2", "3", "4", "5", "6", "7", "8", "9">>[k + 1]

DigitValue(ch) == CHOOSE k \in 0 .. 9 : DigitChar(k) = ch

\* str(u) for an integer u >= 0, by repeated division by ten
NatStr[u \in Limbs] ==
    LET qr == NatDivSmall(u, 10)
    IN  IF qr.q = <<>> THEN <<DigitChar(qr.r)>>
        ELSE Append(NatStr[qr.q], DigitChar(qr.r))

\* str(k) and "%d" % k for an integer k
PyStr(k) == IF k < 0 THEN <<"-">> \o NatStr[NatFromInt[-k]]
            ELSE NatStr[NatFromInt[k]]

\* '0' * k: the empty string for k <= 0
Zeros(k) == [i \in 1 .. k |-> "0"]

\* int(s) for a string of decimal digits
PyInt[s \in Seq(STRING)] == IF s = <<>> THEN 0
            ELSE 10 * PyInt[SubSeq(s, 1, Len(s) - 1)] + DigitValue(s[Len(s)])

\* a slice bound as Python resolves it: negative counts from the end,
\* and the result is clamped to 0 .. len
SliceIndex(k, len) ==
    IF k < 0 THEN (IF k + len < 0 THEN 0 ELSE k + len)
    ELSE (IF k > len THEN len ELSE k)

\* s[:k]
SliceTo(s, k) == SubSeq(s, 1, SliceIndex(k, Len(s)))

\* s[k:]
SliceFrom(s, k) == SubSeq(s, SliceIndex(k, Len(s)) + 1, Len(s))

(***************************************************************************)
(* class Ratio                                                             *)
(***************************************************************************)
\* Ratio(num, den=1): the two fields, stored as given
Ratio(num, den) == [num |-> num, den |-> den]

RatioValues == [num : Int, den : Int]

\* The `/` of __add__, __eq__ and __lt__ raise ZeroDivisionError exactly
\* when one of the two denominators is zero (lcm divides by gcd = 0 when
\* both are, num * lcd / den divides by the zero one otherwise).
RaisesZeroDivision(s, o) == s.den = 0 \/ o.den = 0

\* __add__ with the product of the denominators in place of their lcm
RatioAdd_ProductDen(s, o) ==
    Ratio(s.num * o.den + o.num * s.den, s.den * o.den)

\* __add__
RatioAdd(s, o) ==
    LET lcd == lcm(s.den, o.den)
    IN  Ratio(PyFloorDiv(s.num * lcd, s.den) + PyFloorDiv(o.num * lcd, o.den), lcd)

\* __sub__
RatioSub(s, o) == RatioAdd(s, Ratio(-o.num, o.den))

\* __eq__
RatioEq(s, o) ==
    LET lcd == lcm(s.den, o.den)
    IN  PyFloorDiv(s.num * lcd, s.den) = PyFloorDiv(o.num * lcd, o.den)

\* __lt__
RatioLt(s, o) ==
    LET lcd == lcm(s.den, o.den)
    IN  PyFloorDiv(s.num * lcd, s.den) < PyFloorDiv(o.num * lcd, o.den)

\* __str__
RatioStr(s) ==
    (IF s.num * s.den < 0 THEN <<"-">> ELSE <<>>)
        \o PyStr(PyAbs(s.num)) \o <<"/">> \o PyStr(PyAbs(s.den))

\* __abs__
RatioAbs(s) == Ratio(PyAbs(s.num), PyAbs(s.den))

\* rec: self.num, self.den = self.den, self.num
RatioRec(s) == Ratio(s.den, s.num)

(***************************************************************************)
(* precSqrt, its steps as operators on the local variables.                *)
(***************************************************************************)
\* pc = None, and c before the first round, are the empty sequence; a Ratio
\* r held in either is <<r>>.
None == <<>>

Last(s) == s[Len(s)]

\* lines 135-136: a[0] = int(floor(sqrt(n))) and the test sqrt(n) == a[0],
\* on the radicand as an unbounded natural number
Seed(u) ==
    LET f == DoubleSqrt(DoubleOfNat(u))
    IN  [a0 |-> DoubleFloor(f), square |-> DoubleEqNat(f, DoubleFloor(f))]

\* lines 135-138 with a negative radicand clamped to zero instead of raising
Entry_ClampRadicand(nn) ==
    LET sd == Seed(NatFromInt[IF nn < 0 THEN 0 ELSE nn])
    IN  [kind |-> IF sd.square THEN "square" ELSE "loop",
         a0   |-> NatToInt[sd.a0]]

\* lines 135-138 for an integer n: math.sqrt raises ValueError below zero
Entry(nn) ==
    IF nn < 0 THEN [kind |-> "ValueError", a0 |-> 0]
    ELSE LET sd == Seed(NatFromInt[nn])
         IN  [kind |-> IF sd.square THEN "square" ELSE "loop",
              a0   |-> NatToInt[sd.a0]]

\* line 141
NextM(mm, dd, aa) == dd * Last(aa) - mm

\* line 142 with m * 2 written for m ** 2
NextD_Doubling(nn, mn, dd) == PyFloorDiv(nn - mn * 2, dd)

\* line 142
NextD(nn, mn, dd) == PyFloorDiv(nn - mn * mn, dd)

\* line 143, the appended term
NextTerm(aa, mn, dn) == IntFloor(PyFloorDiv(aa[1] + mn, dn))

\* lines 146-148: for i in reversed(range(len(a) - 1)): c.rec(); c += Ratio(a[i])
Fold[cc \in RatioValues, aa \in Seq(Int), i \in Nat] ==
    IF i = 0 THEN cc
    ELSE Fold[RatioAdd(RatioRec(cc), Ratio(aa[i], 1)), aa, i - 1]

\* lines 145-148
Convergent(aa) == Fold[Ratio(Last(aa), 1), aa, Len(aa) - 1]

\* the tolerance with one zero too few: 1 / 10^dig
Tolerance_OffByOne(dg) == Ratio(1, PyInt[<<"1">> \o Zeros(dg)])

\* Ratio(1, int('1' + '0' * (dig + 1)))
Tolerance(dg) == Ratio(1, PyInt[<<"1">> \o Zeros(dg + 1)])

\* line 150
Converged(cn, prev, dg) ==
    /\ prev # None
    /\ RatioLt(RatioAbs(RatioSub(cn, prev[1])), Tolerance(dg))

\* lines 155-156
Render(cn, dg) ==
    LET s == PyStr(PyFloorDiv(cn.num * PyInt[<<"1">> \o Zeros(dg)], cn.den))
    IN  SliceTo(s, -dg) \o <<".">> \o SliceFrom(s, -dg)

Max2(p, q) == IF p >= q THEN p ELSE q

\* The products of lines 150 and 155 for this round stay within IntLimit.
\* (Each value is bound once, as the one element of a set.)
RoundInRange(nn, dg, mm, dd, aa, prev) ==
    \E mn \in {NextM(mm, dd, aa)} : \E dn \in {NextD(nn, mn, dd)} :
        IF dn = 0 \/ prev = None THEN TRUE
        ELSE \E cn \in {Convergent(Append(aa, NextTerm(aa, mn, dn)))} :
             \E tol \in {Tolerance(dg).den} :
                /\ PyAbs(cn.den) <= IntLimit \div Max2(PyAbs(prev[1].den), 1)
                /\ PyAbs(cn.den * prev[1].den)
                      <= IntLimit \div Max2(Max2(PyAbs(cn.num), PyAbs(prev[1].num)), tol)
                /\ \E diff \in {RatioAbs(RatioSub(cn, prev[1]))} :
                      /\ diff.den <= IntLimit \div tol
                      /\ diff.den * tol <= IntLimit \div Max2(diff.num, 1)

\* lines 139-156 run to the return
Loop[nn \in Int, dg \in Int, mm \in Int, dd \in Int, aa \in Seq(Int), prev \in Seq(RatioValues)] ==
    LET mn == NextM(mm, dd, aa)
        dn == NextD(nn, mn, dd)
        an == Append(aa, NextTerm(aa, mn, dn))
        cn == Convergent(an)
    IN  IF Converged(cn, prev, dg) THEN Render(cn, dg)
        ELSE Loop[nn, dg, mn, dn, an, <<cn>>]

\* precSqrt(n, dig) as a function, for n >= 0
precSqrt(nn, dg) ==
    LET e == Entry(nn)
    IN  IF e.kind = "square" THEN PyStr(e.a0)
        ELSE Loop[nn, dg, 0, 1, <<e.a0>>, None]

(***************************************************************************)
(* main                                                                    *)
(***************************************************************************)
\* line 163 with the bound off by one: only negative counts are rejected
DigitsRejected_Negative(dg) == dg < 0

\* line 163
DigitsRejected(dg) == dg < 1

\* line 164
PrecisionError == <<"Error: number of digits of precision must be at least 1.">>

(***************************************************************************)
(* State.                                                                  *)
(***************************************************************************)
VARIABLES
    caller,     \* "main": the prompt loop calls precSqrt; "direct": one call
    pcl,        \* where control is: "prompt", "start", "loop", "done",
                \* "raised" (an exception left precSqrt), "idle"
    n, dig,     \* the radicand and digit count read by main / passed in
    m, d, a,    \* precSqrt's locals
    c, pc,      \* the current and the previous convergent (None or <<Ratio>>)
    result,     \* the string precSqrt returned
    exc,        \* the exception raised, "" when none
    out,        \* what main printed in this pass of its loop
    big,        \* a radicand beyond the model's integers, as limbs
    x, y,       \* two Ratio objects under test
    ret         \* the last Ratio operation and what it returned

sqrtVars == <<caller, n, dig, m, d, a, c, pc, result, exc, out>>

ratioVars == <<x, y, ret>>

vars == <<caller, pcl, n, dig, m, d, a, c, pc, result, exc, out, big, x, y, ret>>

NoRatio == Ratio(0, 1)

Returned(op, raised, r, b, s, args) ==
    [op |-> op, raised |-> raised, r |-> r, b |-> b, s |-> s, args |-> args]

RatioIdle ==
    /\ x = NoRatio
    /\ y = NoRatio
    /\ ret = Returned("none", FALSE, NoRatio, FALSE, <<>>, <<>>)

\* no call of precSqrt is in progress: its locals do not exist
NoLocals(mm, dd, aa, cc, prev, res, ex) ==
    /\ mm = 0 /\ dd = 0 /\ aa = <<>> /\ cc = None /\ prev = None
    /\ res = <<>> /\ ex = ""

Radicands == (-MaxInvalid) .. MaxN

DigitCounts == (1 - MaxInvalid) .. MaxDig

(***************************************************************************)
(* The program: main prompting and calling precSqrt, and precSqrt called   *)
(* directly with any pair of integers.                                     *)
(***************************************************************************)
Init ==
    /\ RatioIdle
    /\ big = <<>>
    /\ NoLocals(m, d, a, c, pc, result, exc)
    /\ out = <<>>
    /\ \/ caller = "main" /\ pcl = "prompt" /\ n = 0 /\ dig = 0
       \/ caller = "direct" /\ pcl = "start" /\ n \in Radicands /\ dig \in DigitCounts

\* lines 161-165: both numbers are read, dig < 1 is reported and the loop
\* continues
MainReject ==
    /\ caller = "main" /\ pcl = "prompt"
    /\ \E nn \in Radicands, dg \in DigitCounts :
          /\ DigitsRejected(dg)
          /\ n' = nn /\ dig' = dg
    /\ out' = PrecisionError
    /\ NoLocals(m', d', a', c', pc', result', exc')
    /\ UNCHANGED <<caller, pcl, big, ratioVars>>

\* lines 161-169: both numbers are read and pass the checks (integers
\* always pass line 166), and precSqrt is called
MainCall ==
    /\ caller = "main" /\ pcl = "prompt"
    /\ \E nn \in Radicands, dg \in DigitCounts :
          /\ ~DigitsRejected(dg)
          /\ n' = nn /\ dig' = dg
    /\ out' = <<>>
    /\ NoLocals(m', d', a', c', pc', result', exc')
    /\ pcl' = "start"
    /\ UNCHANGED <<caller, big, ratioVars>>

\* line 170: print ans, and the loop starts over
MainPrint ==
    /\ caller = "main" /\ pcl = "done"
    /\ out' = result
    /\ m' = 0 /\ d' = 0 /\ a' = <<>> /\ c' = None /\ pc' = None
    /\ pcl' = "prompt"
    /\ UNCHANGED <<caller, n, dig, result, exc, big, ratioVars>>

\* line 135 for n < 0: math.sqrt raises, and nothing catches it
StartRaise ==
    /\ pcl = "start"
    /\ Entry(n).kind = "ValueError"
    /\ exc' = "ValueError"
    /\ pcl' = "raised"
    /\ UNCHANGED <<caller, n, dig, m, d, a, c, pc, result, out, big, ratioVars>>

\* lines 131-138: the perfect square returns str(a[0])
StartSquare ==
    /\ pcl = "start"
    /\ Entry(n).kind = "square"
    /\ m' = 0 /\ d' = 1 /\ a' = <<Entry(n).a0>>
    /\ result' = PyStr(Entry(n).a0)
    /\ pcl' = "done"
    /\ UNCHANGED <<caller, n, dig, c, pc, exc, out, big, ratioVars>>

\* lines 131-136: anything else enters the loop
StartLoop ==
    /\ pcl = "start"
    /\ Entry(n).kind = "loop"
    /\ m' = 0 /\ d' = 1 /\ a' = <<Entry(n).a0>>
    /\ pcl' = "loop"
    /\ UNCHANGED <<caller, n, dig, c, pc, result, exc, out, big, ratioVars>>

\* lines 141-156: one round of the loop; at the break, the rendering and
\* the return
Round ==
    /\ pcl = "loop"
    /\ RoundInRange(n, dig, m, d, a, pc)
    /\ \E mn \in {NextM(m, d, a)} : \E dn \in {NextD(n, mn, d)} :
          /\ m' = mn
          /\ d' = dn
          /\ IF dn = 0
             THEN /\ exc' = "ZeroDivisionError"
                  /\ pcl' = "raised"
                  /\ UNCHANGED <<a, c, pc, result>>
             ELSE \E an \in {Append(a, NextTerm(a, mn, dn))} :
                  \E cn \in {Convergent(an)} :
                     /\ a' = an
                     /\ c' = <<cn>>
                     /\ exc' = exc
                     /\ IF Converged(cn, pc, dig)
                        THEN /\ result' = Render(cn, dig)
                             /\ pcl' = "done"
                             /\ pc' = pc
                        ELSE /\ pc' = <<cn>>
                             /\ pcl' = "loop"
                             /\ result' = result
    /\ UNCHANGED <<caller, n, dig, out, big, ratioVars>>

Next ==
    \/ MainReject \/ MainCall \/ MainPrint
    \/ StartRaise \/ StartSquare \/ StartLoop
    \/ Round

Spec == Init /\ [][Next]_vars

\* The interpreter keeps running the call: a round that can be taken is taken.
FairSpec == Spec /\ WF_vars(Round)

(***************************************************************************)
(* precSqrt on radicands too large for a double to hold exactly: the        *)
(* perfect squares around 2^(2 * MantissaBits).                            *)
(***************************************************************************)
BigRoots ==
    {NatAdd(NatSub(NatShl(<<1>>, MantissaBits), NatFromInt[BigSpan]), NatFromInt[j]) :
        j \in 0 .. 2 * BigSpan}

BigInit ==
    /\ RatioIdle
    /\ caller = "direct" /\ pcl = "start" /\ n = 0 /\ dig = 1
    /\ NoLocals(m, d, a, c, pc, result, exc)
    /\ out = <<>>
    /\ big \in {NatMul[k, k] : k \in BigRoots}

\* lines 131-138 on the radicand big
BigStart ==
    /\ pcl = "start"
    /\ ~DoubleOverflows(big)
    /\ LET sd == Seed(big)
       IN  IF sd.square
           THEN /\ result' = NatStr[sd.a0]
                /\ pcl' = "done"
           ELSE /\ result' = result
                /\ pcl' = "loop"
    /\ UNCHANGED <<caller, n, dig, m, d, a, c, pc, exc, out, big, ratioVars>>

BigNext == BigStart

BigSpec == BigInit /\ [][BigNext]_vars

(***************************************************************************)
(* The Ratio class on its own: every operation applied to every pair of    *)
(* small operands, and to the values earlier operations left behind.       *)
(***************************************************************************)
RatioFields == (-RatioMax) .. RatioMax

RatioInit ==
    /\ x \in {Ratio(p, q) : p \in RatioFields, q \in RatioFields \ {0}}
    /\ y \in {Ratio(p, q) : p \in RatioFields, q \in RatioFields \ {0}}
    /\ ret = Returned("none", FALSE, NoRatio, FALSE, <<>>, <<>>)
    /\ caller = "direct" /\ pcl = "idle" /\ n = 0 /\ dig = 1
    /\ NoLocals(m, d, a, c, pc, result, exc)
    /\ out = <<>>
    /\ big = <<>>

\* x + y
OpAdd ==
    /\ ret' = IF RaisesZeroDivision(x, y)
              THEN Returned("add", TRUE, NoRatio, FALSE, <<>>, <<x, y>>)
              ELSE Returned("add", FALSE, RatioAdd(x, y), FALSE, <<>>, <<x, y>>)
    /\ UNCHANGED <<x, y, pcl, sqrtVars, big>>

\* x - y
OpSub ==
    /\ ret' = IF RaisesZeroDivision(x, y)
              THEN Returned("sub", TRUE, NoRatio, FALSE, <<>>, <<x, y>>)
              ELSE Returned("sub", FALSE, RatioSub(x, y), FALSE, <<>>, <<x, y>>)
    /\ UNCHANGED <<x, y, pcl, sqrtVars, big>>

\* x == y
OpEq ==
    /\ ret' = IF RaisesZeroDivision(x, y)
              THEN Returned("eq", TRUE, NoRatio, FALSE, <<>>, <<x, y>>)
              ELSE Returned("eq", FALSE, NoRatio, RatioEq(x, y), <<>>, <<x, y>>)
    /\ UNCHANGED <<x, y, pcl, sqrtVars, big>>

\* x < y
OpLt ==
    /\ ret' = IF RaisesZeroDivision(x, y)
              THEN Returned("lt", TRUE, NoRatio, FALSE, <<>>, <<x, y>>)
              ELSE Returned("lt", FALSE, NoRatio, RatioLt(x, y), <<>>, <<x, y>>)
    /\ UNCHANGED <<x, y, pcl, sqrtVars, big>>

\* str(x)
OpStr ==
    /\ ret' = Returned("str", FALSE, NoRatio, FALSE, RatioStr(x), <<x>>)
    /\ UNCHANGED <<x, y, pcl, sqrtVars, big>>

\* abs(x)
OpAbs ==
    /\ ret' = Returned("abs", FALSE, RatioAbs(x), FALSE, <<>>, <<x>>)
    /\ UNCHANGED <<x, y, pcl, sqrtVars, big>>

\* x.rec(): the one operation that changes its receiver; it returns None
OpRec ==
    /\ x' = RatioRec(x)
    /\ ret' = Returned("rec", FALSE, NoRatio, FALSE, <<>>, <<x>>)
    /\ UNCHANGED <<y, pcl, sqrtVars, big>>

\* x += y, as in the fold of precSqrt: x is rebound to the sum
OpIAdd ==
    /\ ~RaisesZeroDivision(x, y)
    /\ PyAbs(RatioAdd(x, y).num) <= RatioMax
    /\ PyAbs(RatioAdd(x, y).den) <= RatioMax
    /\ x' = RatioAdd(x, y)
    /\ ret' = Returned("iadd", FALSE, NoRatio, FALSE, <<>>, <<x, y>>)
    /\ UNCHANGED <<y, pcl, sqrtVars, big>>

RatioNext ==
    \/ OpAdd \/ OpSub \/ OpEq \/ OpLt \/ OpStr \/ OpAbs \/ OpRec \/ OpIAdd

RatioSpec == RatioInit /\ [][RatioNext]_vars

(***************************************************************************)
(* Mathematics the properties are stated in, independent of the code.      *)
(***************************************************************************)
\* floor(sqrt(k)) for k >= 0, exactly
ExactSqrt(k) == NatToInt[NatISqrt(NatFromInt[k]).root]

IsSquare(k) == k >= 0 /\ ExactSqrt(k) * ExactSqrt(k) = k

Pow10[k \in Int] == IF k <= 0 THEN 1 ELSE 10 * Pow10[k - 1]

\* the digits s with a point before the last dg of them
WithPoint(s, dg) ==
    SubSeq(s, 1, Len(s) - dg) \o <<".">> \o SubSeq(s, Len(s) - dg + 1, Len(s))

Sign(k) == IF k < 0 THEN -1 ELSE IF k = 0 THEN 0 ELSE 1

\* s.num / s.den < o.num / o.den, for nonzero denominators
MathLess(s, o) ==
    s.num * o.den * Sign(s.den * o.den) < o.num * s.den * Sign(s.den * o.den)

\* the least positive common multiple of p and q, both nonzero
LeastCommonMultiple(p, q) ==
    CHOOSE k \in 1 .. PyAbs(p * q) :
        /\ k % PyAbs(p) = 0 /\ k % PyAbs(q) = 0
        /\ \A j \in 1 .. (k - 1) : ~(j % PyAbs(p) = 0 /\ j % PyAbs(q) = 0)

\* |cn - prev| < 1 / 10^(dg + 1), by cross-multiplication
WithinTolerance(cn, prev, dg) ==
    PyAbs(cn.num * prev.den - prev.num * cn.den) * Pow10[dg + 1]
        < PyAbs(cn.den * prev.den)

\* control is inside a call of precSqrt, or the call has ended
InCall == pcl \in {"start", "loop", "done", "raised"}

(***************************************************************************)
(* Properties.                                                             *)
(***************************************************************************)
\* C1: for a perfect square n, precSqrt returns the decimal string of the
\* exact integer square root of n, without entering the loop.  Checked on
\* BigSpec, whose radicands are the squares of the integers around 2^53.
C1_PerfectSquareExact ==
    (NatISqrt(big).rem = <<>> /\ pcl # "start")
        => (pcl = "done" /\ result = NatStr[NatISqrt(big).root])

\* The same for the small radicands of Spec, where it holds.
SmallSquareExact ==
    (IsSquare(n) /\ pcl \in {"loop", "done"})
        => (pcl = "done" /\ result = PyStr(ExactSqrt(n)) /\ c = None)

\* C2: for a non-square n >= 0 and digits >= 1, the string returned is
\* floor(sqrt(n * 10^(2 * digits))) in decimal with a point before its last
\* `digits` digits: the integer part and the first digits of sqrt(n).
C2_DigitsOfRoot ==
    (pcl = "done" /\ n >= 0 /\ ~IsSquare(n) /\ dig >= 1)
        => result = WithPoint(PyStr(ExactSqrt(n * Pow10[2 * dig])), dig)

C4_NegativeRaises ==
    /\ []((InCall /\ n < 0 /\ dig >= 1)
             => /\ pcl \in {"start", "raised"}
                /\ result = <<>> /\ a = <<>> /\ c = None
                /\ (pcl = "raised" => exc = "ValueError"))
    /\ [][(pcl = "start" /\ n < 0 /\ dig >= 1) => pcl' = "raised"]_vars

C4_Witness == pcl = "raised" /\ n < 0 /\ dig >= 1 /\ exc = "ValueError"

\* C5: for a non-square n >= 0 and 1 <= d1 < d2, precSqrt(n, d2) begins
\* with precSqrt(n, d1): the same integer part and first d1 digits.
C5_DigitStability ==
    (pcl = "done" /\ n >= 0 /\ ~IsSquare(n) /\ dig >= 2)
        => \A d1 \in 1 .. (dig - 1) :
              SubSeq(result, 1, Len(precSqrt(n, d1))) = precSqrt(n, d1)

\* C6: a < b is true exactly when a.num/a.den is less than b.num/b.den,
\* whichever of the fields carry the signs.
C6_LtIsOrder ==
    (ret.op = "lt" /\ ~ret.raised) => (ret.b <=> MathLess(x, y))

\* C7: rec() on a zero numerator raises instead of swapping, so that no
\* Ratio ever has a zero denominator.
C7_RecRejectsZero ==
    /\ x.den # 0 /\ y.den # 0
    /\ (ret.op = "rec" /\ ret.args[1].num = 0) => ret.raised

C9_ExactDivision ==
    [][(pcl = "loop" /\ n >= 0)
          => /\ m' = d * Last(a) - m
             /\ PyMod(n - m' * m', d) = 0
             /\ d' * d = n - m' * m'
             /\ d' > 0]_vars

C9_Witness == pcl = "loop" /\ n >= 0 /\ Len(a) >= 4 /\ d > 1 /\ m > 0

\* C10: for a non-square n >= 0 and digits >= 1 the loop reaches a round
\* with abs(c - pc) < 1/10^(digits + 1) and exits (unless the round's
\* integers pass IntLimit, where the model stops); the loop is left in no
\* other way.
C10_LoopExits ==
    /\ (pcl = "loop" /\ n >= 0 /\ dig >= 1)
          ~> (pcl = "done" \/ (pcl = "loop" /\ ~RoundInRange(n, dig, m, d, a, pc)))
    /\ [][(pcl = "loop" /\ dig >= 1 /\ pcl' # "loop")
             => /\ pcl' = "done"
                /\ pc # None /\ pc' = pc
                /\ WithinTolerance(c'[1], pc[1], dig)]_vars

C10_Witness ==
    /\ pcl = "done" /\ ~IsSquare(n) /\ dig >= 1 /\ Len(a) >= 5
    /\ WithinTolerance(c[1], pc[1], dig)

=============================================================================
